---- MODULE Spec2Model ----
(***************************************************************************)
(* A model of src/network/rpc.rs of avail-light: the failover pool Nodes   *)
(* (init, get_current, next, shuffle, reset), the sampling planner         *)
(* (generate_random_cells, cell_count_for_confidence) and the worker that  *)
(* drives the pool on connection loss, ExpectedVersion::matches, and the   *)
(* two channels init creates.                                              *)
(*                                                                         *)
(* The specifications share the variables; each leaves the variables of    *)
(* the other parts at their idle values:                                   *)
(*   Spec           the pool under any sequence of its operations          *)
(*   WorkerSpec     the connection worker failing over through the pool    *)
(*   CellsSpec      generate_random_cells, one loop iteration per step     *)
(*   CellsFairSpec  the same with a fair random source                     *)
(*   ConfSpec       cell_count_for_confidence, one statement per step      *)
(*   MatchSpec      ExpectedVersion::matches                               *)
(*   QueueSpec      the command queue, its producers and the worker        *)
(*   EventSpec      the event broadcast, the worker and its listeners      *)
(***************************************************************************)
EXTENDS Integers, Sequences, FiniteSets

VARIABLES
    nodes,          \* the Nodes value: [list, current_index]
    ret,            \* what the last pool operation returned
    lastOp,         \* the last pool operation
    panicked,       \* the last pool operation panicked (the thread unwinds)
    in_nodes,       \* init's argument `nodes`
    in_last,        \* init's argument `last_known_node`
    trace,          \* what next() returned, call by call, since the list was last ordered
    origin,         \* how this pass began: "init", "reset"; "shuffled" after a bare shuffle()
    wstate,         \* worker: "idle", "connected", "connecting"
    accepting,      \* worker: the hosts that always accept a connection
    visited,        \* worker: the hosts made current in this failover pass, in order
    dimensions,     \* generate_random_cells: argument
    cell_count_arg, \* generate_random_cells: argument cell_count (u32)
    count,          \* generate_random_cells: local `count`
    indices,        \* generate_random_cells: local `indices` (HashSet<Position>)
    gpc,            \* generate_random_cells: "idle", "start", "loop", "done"
    confidence,     \* cell_count_for_confidence: argument
    cell_count,     \* cell_count_for_confidence: local `cell_count`
    cpc,            \* cell_count_for_confidence: "idle", "start", "computed", "done"
    expected,       \* matches: self, the ExpectedVersion [version, spec_name]
    node_version,   \* matches: argument
    spec_name,      \* matches: argument
    matched,        \* matches: "idle", "called", or what it returned: "true", "false"
    command_queue,  \* the mpsc channel of commands: the commands it holds, oldest first
    sending,        \* per producer: 0, or the command its suspended send holds
    waiting_since,  \* per producer: how many commands the worker had dequeued when its send suspended
    issued,         \* how many commands have been handed to send so far
    dequeued,       \* the commands the worker has received, in order
    published,      \* how many events the worker has sent on the broadcast channel
    listeners       \* per listener: subscribed, position of the next event, events received

poolVars   == <<nodes, ret, lastOp, panicked, in_nodes, in_last, trace, origin>>
workerVars == <<wstate, accepting, visited>>
cellsVars  == <<dimensions, cell_count_arg, count, indices, gpc>>
confVars   == <<confidence, cell_count, cpc>>
matchVars  == <<expected, node_version, spec_name, matched>>
queueVars  == <<command_queue, sending, waiting_since, issued, dequeued>>
eventVars  == <<published, listeners>>
extraVars  == <<matchVars, queueVars, eventVars>>
vars       == <<poolVars, workerVars, cellsVars, confVars, extraVars>>

----------------------------------------------------------------------------
(* Bounds of the model. *)

\* the longest host list handed to init
MaxHosts == 3
\* how many next() calls past exhaustion a pass is followed for
MaxExtra == 1

\* the host names init is tried on
HostNames == {"a", "b", "c"}

\* the largest matrices generate_random_cells is followed on, loop and all
MaxRows == 1
MaxCols == 2
\* the largest count asked of them is MaxCount, and MaxCount past a multiple of 2^16
MaxCount == 5
\* the longest expected version and the longest node version tried, in characters
MaxVersionLen == 2
MaxNodeVersionLen == 3
\* the producers that send commands, and the dequeues of the worker that are followed
NumProducers == 2
MaxDequeues == 2
\* the worker publishes up to MaxPublished events, two more than the event
\* channel keeps; a listener subscribes in the first MaxEarly publishes or
\* once as many events as the channel was asked to hold are out, and is
\* followed for MaxRecvs calls of recv
MaxPublished == 1026
MaxEarly == 1
MaxRecvs == 2
\* confidences are tried at steps of 1/Res of a percentage point ...
Res == 100
\* ... from ConfMargin steps below 0 to ConfMargin steps above 100
ConfMargin == 50

----------------------------------------------------------------------------
(* Option<T> *)

None == [some |-> FALSE]
Some(v) == [some |-> TRUE, val |-> v]

RECURSIVE SeqsUpTo(_, _)
\* all sequences over S of length at most n
SeqsUpTo(S, n) ==
    IF n = 0 THEN {<<>>}
    ELSE LET shorter == SeqsUpTo(S, n - 1)
         IN  shorter \cup {Append(s, x) : s \in {t \in shorter : Len(t) = n - 1}, x \in S}

----------------------------------------------------------------------------
(* struct Node, struct Nodes *)

\* a Node built from a bare host: every other field is Default::default()
NodeOf(s) ==
    [host |-> s, system_version |-> "", spec_version |-> 0, genesis_hash |-> 0]

Hosts(list) == [i \in 1..Len(list) |-> list[i].host]

\* Vec::retain(|node| Some(node) != last_known_node.as_ref()), dropping nothing
RetainAll(candidates, last_known_node) == candidates

\* Vec::retain that stops after the first entry it removes
RECURSIVE RetainFirstOnly(_, _)
RetainFirstOnly(candidates, last_known_node) ==
    IF candidates = <<>> THEN <<>>
    ELSE IF Some(Head(candidates)) = last_known_node
         THEN Tail(candidates)
         ELSE <<Head(candidates)>> \o RetainFirstOnly(Tail(candidates), last_known_node)

RECURSIVE Retain(_, _)
\* candidates.retain(|node| Some(node) != last_known_node.as_ref()):
\* keeps, in order, the entries the closure accepts
Retain(candidates, last_known_node) ==
    IF candidates = <<>> THEN <<>>
    ELSE LET rest == Retain(Tail(candidates), last_known_node)
         IN  IF Some(Head(candidates)) /= last_known_node
             THEN <<Head(candidates)>> \o rest
             ELSE rest

\* Nodes::init
init(nds, last_known_node) ==
    LET candidates == Retain(nds, last_known_node)
    IN  [list |-> [i \in 1..Len(candidates) |-> NodeOf(candidates[i])],
         current_index |-> 0]

\* the outcome of an operation: the pool after it, what it returned, whether it panicked
Outcome(self, r, p) == [self |-> self, ret |-> r, panic |-> p]

\* Nodes::get_current: &self.list[self.current_index] panics when out of bounds
get_current(self) ==
    IF self.current_index < Len(self.list)
    THEN Outcome(self, Some(self.list[self.current_index + 1]), FALSE)
    ELSE Outcome(self, None, TRUE)

\* a test for the last element that is off by one
IsLastOffByOne(current_index, len) == current_index = len

\* self.current_index == self.list.len() - 1, where the subtraction has wrapped
\* (len = 0, overflow checks off): the right side is usize::MAX, which no cursor
\* the pool can reach equals
IsLast(current_index, len) ==
    IF len = 0 THEN FALSE ELSE current_index = len - 1

\* Nodes::next. overflow_checks: the build traps `len() - 1` on an empty list
\* (debug profile); without them it wraps (release profile)
next(self, overflow_checks) ==
    IF Len(self.list) = 0 /\ overflow_checks
    THEN Outcome(self, None, TRUE)
    ELSE IF IsLast(self.current_index, Len(self.list))
         THEN Outcome(self, None, FALSE)
         ELSE get_current([self EXCEPT !.current_index = self.current_index + 1])

\* the bijections of 1..n
Bijections(n) ==
    {f \in [1..n -> 1..n] : \A i, j \in 1..n : f[i] = f[j] => i = j}

\* a shuffle that loses the last element's place: it writes the first element there
ShuffleClobber(list) ==
    {[i \in 1..Len(list) |-> IF i = Len(list) THEN list[f[1]] ELSE list[f[i]]] :
        f \in Bijections(Len(list))}

\* Nodes::shuffle: self.list.shuffle(&mut thread_rng()) leaves any permutation
shuffle(list) ==
    {[i \in 1..Len(list) |-> list[f[i]]] : f \in Bijections(Len(list))}

\* a reset that forgets to rewind the cursor
RewindKeep(self) == self

\* self.current_index = 0
Rewind(self) == [self EXCEPT !.current_index = 0]

\* Nodes::reset, `shuffled` being the list self.shuffle() left
reset(self, shuffled) ==
    get_current(Rewind([self EXCEPT !.list = shuffled]))

----------------------------------------------------------------------------
(* Idle values of the other parts *)

WorkerIdle == wstate = "idle" /\ accepting = {} /\ visited = <<>>
CellsIdle ==
    /\ dimensions = [rows |-> 1, cols |-> 1]
    /\ cell_count_arg = 0 /\ count = 0 /\ indices = {} /\ gpc = "idle"
ConfIdle == confidence = [kind |-> "num", v |-> 0] /\ cell_count = 0 /\ cpc = "idle"
MatchIdle ==
    /\ expected = [version |-> <<>>, spec_name |-> ""]
    /\ node_version = <<>> /\ spec_name = "" /\ matched = "idle"
QueueIdle ==
    /\ command_queue = <<>> /\ sending = <<>> /\ waiting_since = <<>>
    /\ issued = 0 /\ dequeued = <<>>
EventIdle == published = 0 /\ listeners = <<>>
ExtraIdle == MatchIdle /\ QueueIdle /\ EventIdle
PoolIdle ==
    /\ nodes = [list |-> <<>>, current_index |-> 0]
    /\ ret = None /\ lastOp = "idle" /\ panicked = FALSE
    /\ in_nodes = <<>> /\ in_last = None /\ trace = <<>> /\ origin = "idle"

----------------------------------------------------------------------------
(* Spec: the pool under any sequence of its operations *)

InitArgs ==
    /\ in_nodes \in SeqsUpTo(HostNames, MaxHosts)
    /\ in_last \in {None} \cup {Some(h) : h \in HostNames}

Init ==
    /\ InitArgs
    /\ nodes = init(in_nodes, in_last)
    /\ ret = None
    /\ lastOp = "init"
    /\ panicked = FALSE
    /\ trace = <<>>
    /\ origin = "init"
    /\ WorkerIdle /\ CellsIdle /\ ConfIdle /\ ExtraIdle

\* what an operation's outcome does to the pool's variables
Apply(o, op) ==
    /\ nodes' = o.self
    /\ ret' = o.ret
    /\ panicked' = o.panic
    /\ lastOp' = op
    /\ UNCHANGED <<in_nodes, in_last>>

\* the variables no pool operation touches
OthersIdle == UNCHANGED <<workerVars, cellsVars, confVars, extraVars>>

GetCurrent ==
    /\ ~panicked
    /\ Apply(get_current(nodes), "get_current")
    /\ UNCHANGED <<trace, origin>>
    /\ OthersIdle

NextNode ==
    /\ ~panicked
    /\ Len(trace) < Len(nodes.list) + MaxExtra
    /\ \E overflow_checks \in BOOLEAN :
         LET o == next(nodes, overflow_checks)
         IN  /\ Apply(o, "next")
             /\ trace' = IF o.panic THEN trace ELSE Append(trace, o.ret)
    /\ UNCHANGED origin
    /\ OthersIdle

Shuffle ==
    /\ ~panicked
    /\ \E shuffled \in shuffle(nodes.list) :
         Apply(Outcome([nodes EXCEPT !.list = shuffled], ret, FALSE), "shuffle")
    /\ origin' = "shuffled"
    /\ trace' = <<>>
    /\ OthersIdle

Reset ==
    /\ ~panicked
    /\ \E shuffled \in shuffle(nodes.list) :
         Apply(reset(nodes, shuffled), "reset")
    /\ trace' = <<>>
    /\ origin' = "reset"
    /\ OthersIdle

Next == GetCurrent \/ NextNode \/ Shuffle \/ Reset

Spec == Init /\ [][Next]_vars

----------------------------------------------------------------------------
(* Claims about the pool, checked under Spec *)

\* C1: in a pass that began with the cursor on the first element (after init,
\* or after reset) and saw no bare shuffle, the k-th call of next() returns the
\* node at position k+1 of the list while there is one, and absent from the
\* call made on the last element on, until reset() starts a new pass; no call
\* panics.
C1_NextVisitsInOrder ==
    (origin \in {"init", "reset"} /\ Len(nodes.list) >= 1) =>
        /\ ~panicked
        /\ \A k \in 1..Len(trace) :
              trace[k] = IF k < Len(nodes.list) THEN Some(nodes.list[k + 1]) ELSE None

\* C1's case: a pool init made of three nodes, walked to its end and asked once more
C1_Witness ==
    /\ origin = "init" /\ lastOp = "next" /\ ~panicked
    /\ Len(nodes.list) = 3
    /\ Len(trace) = 4
    /\ trace[2] = Some(nodes.list[3]) /\ trace[3] = None /\ trace[4] = None

\* C2: once init has excluded a host, no candidate of the list has that host and
\* no operation returns a node with it, whatever operations follow.
C2_ExcludedNeverListed ==
    in_last.some =>
        /\ \A i \in 1..Len(nodes.list) : nodes.list[i].host /= in_last.val
        /\ (ret.some => ret.val.host /= in_last.val)

\* C2's case: the excluded host was among init's hosts, and the pool has been
\* walked and reshuffled since
C2_Witness ==
    /\ in_last.some
    /\ \E i \in 1..Len(in_nodes) : in_nodes[i] = in_last.val
    /\ Len(nodes.list) >= 2
    /\ lastOp = "reset" /\ ret.some
    /\ Hosts(nodes.list) /= Retain(in_nodes, in_last)

\* C3 (as claimed): on a pool with an empty list, get_current(), next() and
\* reset() return absent, do not panic and leave the cursor where it was.
C3_EmptyPoolReturnsAbsent ==
    (Len(nodes.list) = 0 /\ lastOp \in {"get_current", "next", "reset"}) =>
        (ret = None /\ ~panicked /\ nodes.current_index = 0)

\* C5: reset() on a non-empty pool, in any cursor state, leaves the cursor at
\* index 0, returns the node now at index 0, and leaves a list with the same
\* length and the same multiset of hosts as before the call.
C5_ResetPermutes ==
    [][(lastOp' = "reset" /\ Len(nodes.list) >= 1) =>
          /\ nodes'.current_index = 0
          /\ ~panicked'
          /\ ret' = Some(nodes'.list[1])
          /\ Len(nodes'.list) = Len(nodes.list)
          /\ \A h \in HostNames :
                Cardinality({i \in 1..Len(nodes'.list) : nodes'.list[i].host = h})
                  = Cardinality({i \in 1..Len(nodes.list) : nodes.list[i].host = h})
      ]_vars

\* C5's case: a reset of a three-node pool that changed the order of the list
C5_Witness ==
    /\ lastOp = "reset" /\ origin = "reset"
    /\ Len(nodes.list) = 3
    /\ nodes.current_index = 0
    /\ ret = Some(nodes.list[1])
    /\ Hosts(nodes.list) /= Retain(in_nodes, in_last)

\* the indices of init's hosts that are not the excluded host
Kept == {i \in 1..Len(in_nodes) : Some(in_nodes[i]) /= in_last}

\* the j-th smallest element of Kept
KeptAt(j) == CHOOSE i \in Kept : Cardinality({m \in Kept : m < i}) = j - 1

\* C6: the pool init returns has the cursor at index 0 and lists exactly the
\* hosts that differ from the excluded host, in their original order, each
\* with its other fields defaulted; with no excluded host it lists them all;
\* init(["a","b","c"], Some("b")) lists ["a","c"].
C6_InitFilters ==
    lastOp = "init" =>
        /\ nodes.current_index = 0
        /\ Len(nodes.list) = Cardinality(Kept)
        /\ \A j \in 1..Len(nodes.list) :
              nodes.list[j] = [host |-> in_nodes[KeptAt(j)], system_version |-> "",
                               spec_version |-> 0, genesis_hash |-> 0]
        /\ (in_last = None => Hosts(nodes.list) = in_nodes)
        /\ ((in_nodes = <<"a", "b", "c">> /\ in_last = Some("b"))
               => Hosts(nodes.list) = <<"a", "c">>)

\* C6's case: init(["a","b","c"], Some("b"))
C6_Witness ==
    /\ lastOp = "init"
    /\ in_nodes = <<"a", "b", "c">> /\ in_last = Some("b")
    /\ Hosts(nodes.list) = <<"a", "c">>

----------------------------------------------------------------------------
(* WorkerSpec: the connection worker (mod event_loop) failing over through   *)
(* the pool.  It holds one connection, to the pool's current node; on an     *)
(* unrecoverable failure it calls next(), on exhaustion reset(), and then    *)
(* tries to connect to the new current node.                                 *)

\* the host of the node an operation returned
HostOf(o) == o.ret.val.host

WorkerInit ==
    /\ InitArgs
    /\ nodes = init(in_nodes, in_last)
    /\ Len(nodes.list) >= 1
    /\ accepting \in (SUBSET {nodes.list[i].host : i \in 1..Len(nodes.list)}) \ {{}}
    /\ ret = get_current(nodes).ret
    /\ lastOp = "get_current"
    /\ panicked = FALSE
    /\ trace = <<>>
    /\ origin = "init"
    /\ visited = <<ret.val.host>>
    /\ wstate \in {"connecting", "connected"}
    /\ CellsIdle /\ ConfIdle /\ ExtraIdle

\* the attempt to connect to the current node succeeds; a host outside
\* `accepting` may accept too
WConnect ==
    /\ wstate = "connecting"
    /\ wstate' = "connected"
    /\ UNCHANGED <<poolVars, accepting, visited, cellsVars, confVars, extraVars>>

\* the worker's answer to a failure: NodePool.next()
WFailover ==
    LET o == next(nodes, TRUE)
    IN  /\ Apply(o, "next")
        /\ trace' = Append(trace, o.ret)
        /\ wstate' = IF o.ret.some THEN "connecting" ELSE "exhausted"
        /\ visited' = IF o.ret.some THEN Append(visited, HostOf(o)) ELSE visited
        /\ UNCHANGED <<origin, accepting, cellsVars, confVars, extraVars>>

\* the attempt to connect to the current node fails: only a host outside
\* `accepting` refuses
WFail ==
    /\ wstate = "connecting"
    /\ ret.val.host \notin accepting
    /\ WFailover

\* the live connection is lost
WLost ==
    /\ wstate = "connected"
    /\ WFailover

\* next() signalled exhaustion: NodePool.reset() begins a fresh pass
WReset ==
    /\ wstate = "exhausted"
    /\ \E shuffled \in shuffle(nodes.list) :
         LET o == reset(nodes, shuffled)
         IN  /\ Apply(o, "reset")
             /\ visited' = <<HostOf(o)>>
    /\ trace' = <<>>
    /\ origin' = "reset"
    /\ wstate' = "connecting"
    /\ UNCHANGED <<accepting, cellsVars, confVars, extraVars>>

WorkerStep == WConnect \/ WFail \/ WReset

WorkerNext == WConnect \/ WFail \/ WLost \/ WReset

\* the worker is a long-lived task that runs whenever it can take a step; the
\* loss of a connection is the environment's and has no fairness
WorkerSpec == WorkerInit /\ [][WorkerNext]_vars /\ WF_vars(WorkerStep)

\* in a failover pass the hosts made current so far are the list's first
\* entries, one for one; at exhaustion they are the whole list
PassVisitsEachOnce ==
    /\ ~panicked
    /\ visited = Hosts(SubSeq(nodes.list, 1, nodes.current_index + 1))
    /\ (wstate = "exhausted" => visited = Hosts(nodes.list))

\* C4: on a non-empty pool with at least one host that always accepts, a
\* worker without a connection eventually holds one (weak fairness of the
\* worker), and every failover pass, the first in list order and each later
\* one in reshuffled order, makes every candidate current exactly once.
C4_WorkerEventuallyConnected ==
    /\ []PassVisitsEachOnce
    /\ ((wstate /= "connected") ~> (wstate = "connected"))

\* C4's case: in a reshuffled pass over three candidates of which one accepts,
\* the worker connected to the last one it tried
C4_Witness ==
    /\ wstate = "connected"
    /\ origin = "reset"
    /\ Len(nodes.list) = 3 /\ Len(visited) = 3
    /\ Cardinality(accepting) = 1
    /\ visited[3] \in accepting
    /\ visited[1] \notin accepting /\ visited[2] \notin accepting

----------------------------------------------------------------------------
(* kate_recovery::matrix::Dimensions and Position *)

\* the rows of the extended matrix per row of the original
ExtensionFactor == 2

\* Dimensions::cols
cols(d) == d.cols

\* Dimensions::extended_rows
extended_rows(d) == d.rows * ExtensionFactor

\* Dimensions::extended_size
extended_size(d) == extended_rows(d) * d.cols

Position(row, col) == [row |-> row, col |-> col]

----------------------------------------------------------------------------
(* CellsSpec: generate_random_cells *)

\* the values of a u16
U16 == 65536

\* a count that is not capped at max_cells
UncappedCount(max_cells, cc) == cc

\* let count = if max_cells < cell_count { max_cells } else { cell_count }
EffectiveCount(max_cells, cc) == IF max_cells < cc THEN max_cells ELSE cc

\* the loop's test (indices.len() as u16) < count as u16: both casts truncate
LoopTest(len, cnt) == (len % U16) < (cnt % U16)

\* what one iteration may draw: col in 0..cols, row in 0..extended_rows
Draws(d) ==
    {Position(row, col) : row \in 0..(extended_rows(d) - 1), col \in 0..(cols(d) - 1)}

\* a matrix with 2^16 cells
BigDims == [rows |-> 128, cols |-> 256]

SmallDims == {[rows |-> r, cols |-> c] : r \in 1..MaxRows, c \in 1..MaxCols}

\* the calls followed: small matrices with small counts and with counts past
\* 2^16; the big matrix with the counts 2^16 and 2^16 + 1
CellsArgs ==
    {<<d, k>> : d \in SmallDims, k \in (0..MaxCount) \cup (U16..(U16 + MaxCount))}
      \cup {<<BigDims, k>> : k \in {U16, U16 + 1}}

CellsInit ==
    /\ \E a \in CellsArgs : dimensions = a[1] /\ cell_count_arg = a[2]
    /\ count = 0
    /\ indices = {}
    /\ gpc = "start"
    /\ PoolIdle /\ WorkerIdle /\ ConfIdle /\ ExtraIdle

\* lines 131-139
GrcClamp ==
    /\ gpc = "start"
    /\ count' = EffectiveCount(extended_size(dimensions), cell_count_arg)
    /\ gpc' = "loop"
    /\ UNCHANGED <<dimensions, cell_count_arg, indices, poolVars, workerVars, confVars, extraVars>>

\* one iteration of the loop, lines 140-144
GrcDraw ==
    /\ gpc = "loop"
    /\ LoopTest(Cardinality(indices), count)
    /\ \E p \in Draws(dimensions) : indices' = indices \cup {p}
    /\ UNCHANGED <<dimensions, cell_count_arg, count, gpc, poolVars, workerVars, confVars, extraVars>>

\* the loop's exit and the return of the collected positions, line 146
GrcReturn ==
    /\ gpc = "loop"
    /\ ~LoopTest(Cardinality(indices), count)
    /\ gpc' = "done"
    /\ UNCHANGED <<dimensions, cell_count_arg, count, indices, poolVars, workerVars, confVars, extraVars>>

CellsNext == GrcClamp \/ GrcDraw \/ GrcReturn

CellsSpec == CellsInit /\ [][CellsNext]_vars

\* every returned position lies in the extended matrix
InMatrix ==
    \A p \in indices :
        p.row < extended_rows(dimensions) /\ p.col < cols(dimensions)

\* C7 (as claimed): for a count k <= extended_size, of any magnitude,
\* generate_random_cells returns exactly k distinct positions, all in the matrix.
C7_ExactlyKCells ==
    (gpc = "done" /\ cell_count_arg <= extended_size(dimensions)) =>
        (Cardinality(indices) = cell_count_arg /\ InMatrix)

\* C8 (as claimed): for a count k > extended_size, generate_random_cells
\* returns exactly extended_size distinct positions, whatever that size.
C8_CappedAtExtendedSize ==
    (gpc = "done" /\ cell_count_arg > extended_size(dimensions)) =>
        Cardinality(indices) = extended_size(dimensions)

----------------------------------------------------------------------------
(* ConfSpec: cell_count_for_confidence *)

Num(v) == [kind |-> "num", v |-> v]

\* the confidences tried: v / Res percent, and the f64 values that are no number
ConfArgs ==
    {Num(v) : v \in (0 - ConfMargin)..(100 * Res + ConfMargin)}
      \cup {[kind |-> "NaN"], [kind |-> "+inf"], [kind |-> "-inf"]}

\* a range test whose lower end is 0 instead of 50
InRangeFromZero(c) == c.kind = "num" /\ 0 <= c.v /\ c.v < 100 * Res

\* (50.0..100f64).contains(&confidence): false of NaN and of the infinities
InRange(c) == c.kind = "num" /\ 50 * Res <= c.v /\ c.v < 100 * Res

\* a ceiling that steps up at the exact powers of two as well
RECURSIVE CeilNegLog2Strict(_, _)
CeilNegLog2Strict(p, q) == IF p > q THEN 0 ELSE 1 + CeilNegLog2Strict(2 * p, q)

RECURSIVE CeilNegLog2(_, _)
\* (-(x.log2())).ceil() as u32 for x = p / q, 0 < p <= q: the number of
\* doublings that bring x to 1 or above
CeilNegLog2(p, q) == IF p >= q THEN 0 ELSE 1 + CeilNegLog2(2 * p, q)

\* (-((1f64 - (confidence / 100f64)).log2())).ceil() as u32, confidence = v / Res
CountFor(v) == CeilNegLog2(100 * Res - v, 100 * Res)

\* the count of the default confidence of 99
DefaultCount == CountFor(99 * Res)

\* the first if, lines 155-164
FirstCount(c) == IF ~InRange(c) THEN DefaultCount ELSE CountFor(c.v)

\* a second if that lets large counts through
CheckedCountNoCap(cc) == IF cc = 0 THEN DefaultCount ELSE cc

\* the second if, lines 165-171
CheckedCount(cc) == IF cc = 0 \/ cc > 10 THEN DefaultCount ELSE cc

ConfInit ==
    /\ confidence \in ConfArgs
    /\ cell_count = 0
    /\ cpc = "start"
    /\ PoolIdle /\ WorkerIdle /\ CellsIdle /\ ExtraIdle

CcfCompute ==
    /\ cpc = "start"
    /\ cell_count' = FirstCount(confidence)
    /\ cpc' = "computed"
    /\ UNCHANGED <<confidence, poolVars, workerVars, cellsVars, extraVars>>

CcfCheck ==
    /\ cpc = "computed"
    /\ cell_count' = CheckedCount(cell_count)
    /\ cpc' = "done"
    /\ UNCHANGED <<confidence, poolVars, workerVars, cellsVars, extraVars>>

ConfNext == CcfCompute \/ CcfCheck

ConfSpec == ConfInit /\ [][ConfNext]_vars

RECURSIVE Pow2(_)
Pow2(n) == IF n = 0 THEN 1 ELSE 2 * Pow2(n - 1)

\* n is the least number of cells with 2^(-n) <= 1 - (v / Res) / 100
IsMinCells(n, v) ==
    /\ n >= 0
    /\ (100 * Res - v) * Pow2(n) >= 100 * Res
    /\ (n > 0 => (100 * Res - v) * Pow2(n - 1) < 100 * Res)

\* C9 (as claimed): for every confidence in [50, 100) the count returned is
\* the least n with 2^(-n) <= 1 - c/100.
C9_MinimalForAllValid ==
    (cpc = "done" /\ InRange(confidence)) => IsMinCells(cell_count, confidence.v)

\* 1 - c/100 >= 2^(-10): ten cells or fewer suffice
WithinCap(v) == (100 * Res - v) * Pow2(10) >= 100 * Res

\* C9 (amended): for every confidence in [50, 100) with 1 - c/100 >= 2^(-10)
\* the count returned is the least n with 2^(-n) <= 1 - c/100; for the
\* confidences of [50, 100) above that, the count returned is 7, which is not.
C9_MinimalUpToCap ==
    (cpc = "done" /\ InRange(confidence)) =>
        IF WithinCap(confidence.v)
        THEN IsMinCells(cell_count, confidence.v)
        ELSE cell_count = 7 /\ ~IsMinCells(cell_count, confidence.v)

\* C9's case: 99.9 percent, the highest tenth the cap admits, needs ten cells
C9_Witness ==
    /\ cpc = "done"
    /\ confidence.kind = "num" /\ confidence.v * 10 = 999 * Res
    /\ cell_count = 10

\* C10: whatever the confidence, in [50, 100) or not, a number or not, the
\* count returned is in 1..10; for 50.0 it is 1.
C10_CountInOneToTen ==
    cpc = "done" =>
        /\ cell_count \in 1..10
        /\ (confidence = Num(50 * Res) => cell_count = 1)

\* C10's case: a confidence of [50, 100) whose computed count, above 10, was replaced
C10_Witness ==
    /\ cpc = "done"
    /\ InRange(confidence)
    /\ CountFor(confidence.v) > 10
    /\ cell_count \in 1..10

\* the confidence lies in [50, 100): stated on the number, apart from InRange
ValidConfidence ==
    confidence.kind = "num" /\ confidence.v >= 50 * Res /\ confidence.v < 100 * Res

\* C11: for every confidence outside [50, 100) (below 50, 100, above 100,
\* negative, no number) the count returned is 7, the count of 99.0; the same
\* count is returned when the count computed first is 0 or above 10, and 99.0
\* itself returns 7.
C11_FallbackIsSeven ==
    cpc = "done" =>
        /\ (~ValidConfidence => cell_count = 7 /\ cell_count = CheckedCount(FirstCount(Num(99 * Res))))
        /\ ((ValidConfidence /\ (CountFor(confidence.v) = 0 \/ CountFor(confidence.v) > 10))
               => cell_count = 7)
        /\ (confidence = Num(99 * Res) => cell_count = 7)

\* C11's case: a confidence below 50 whose own count would not have been 7
C11_Witness ==
    /\ cpc = "done"
    /\ confidence.kind = "num" /\ confidence.v > 0 /\ confidence.v < 50 * Res
    /\ CountFor(confidence.v) /= 7
    /\ cell_count = 7

----------------------------------------------------------------------------
(* Further claims about the pool, checked under Spec *)

\* C16: on a pool whose list is not empty, after init and after any sequence
\* of next(), get_current(), shuffle() and reset(), the cursor is a position
\* of the list: 0 <= current_index < len.
C16_CursorInList ==
    Len(nodes.list) >= 1 =>
        (nodes.current_index >= 0 /\ nodes.current_index < Len(nodes.list))

\* C16's case: next() was called with the cursor on the last of three nodes
C16_Witness ==
    /\ Len(nodes.list) = 3
    /\ nodes.current_index = 2
    /\ lastOp = "next" /\ ret = None

\* C17 (as claimed): next() never changes the list; it returns absent exactly
\* with the cursor on the last element, and then leaves the cursor; otherwise
\* it moves the cursor up by one and returns the node there; get_current()
\* changes neither the list nor the cursor. Every call returns.
C17_NextFrame ==
    [][/\ (lastOp' = "next" =>
             /\ ~panicked'
             /\ nodes'.list = nodes.list
             /\ IF ret' = None
                THEN /\ nodes'.current_index = nodes.current_index
                     /\ nodes.current_index = Len(nodes.list) - 1
                ELSE /\ nodes'.current_index = nodes.current_index + 1
                     /\ ret' = Some(nodes.list[nodes'.current_index + 1]))
       /\ (lastOp' = "get_current" => nodes' = nodes)
      ]_vars

----------------------------------------------------------------------------
(* CellsFairSpec: generate_random_cells with a fair random source *)

\* the loop iteration that draws position p
GrcDrawOf(p) ==
    /\ gpc = "loop"
    /\ LoopTest(Cardinality(indices), count)
    /\ p \in Draws(dimensions)
    /\ indices' = indices \cup {p}
    /\ UNCHANGED <<dimensions, cell_count_arg, count, gpc, poolVars, workerVars, confVars, extraVars>>

\* the positions of the matrices whose loop is followed
SmallDraws == UNION {Draws(d) : d \in SmallDims}

\* the function runs on; while the loop runs, every position a draw can give
\* and has not given yet is drawn eventually
CellsFairSpec ==
    /\ CellsInit /\ [][CellsNext]_vars
    /\ WF_vars(GrcClamp) /\ WF_vars(GrcReturn)
    /\ \A p \in SmallDraws : WF_vars(GrcDrawOf(p))

\* the loop's target, count as u16, is at most the number of positions a draw can give
TargetWithinDraws ==
    gpc \in {"loop", "done"} => (count % U16) <= Cardinality(Draws(dimensions))

\* C18: with a fair random source generate_random_cells terminates, whatever
\* the dimensions and the count asked: the loop's target never exceeds the
\* number of distinct positions the loop can draw.
C18_LoopTerminates ==
    /\ []TargetWithinDraws
    /\ <>(gpc = "done")

\* C18's case: more cells were asked than exist, and the loop ended having drawn them all
C18_Witness ==
    /\ gpc = "done"
    /\ cell_count_arg > extended_size(dimensions)
    /\ cell_count_arg < U16
    /\ extended_size(dimensions) >= 4
    /\ indices = Draws(dimensions)

----------------------------------------------------------------------------
(* MatchSpec: ExpectedVersion::matches.  A str is the sequence of its        *)
(* characters; a spec name is compared whole.                                *)

\* a prefix test that asks for the whole string
RECURSIVE StrEq(_, _)
StrEq(s, pat) ==
    IF pat = <<>> THEN s = <<>>
    ELSE IF s = <<>> THEN FALSE
         ELSE Head(s) = Head(pat) /\ StrEq(Tail(s), Tail(pat))

RECURSIVE starts_with(_, _)
\* str::starts_with: pat is matched character by character from the start of s
starts_with(s, pat) ==
    IF pat = <<>> THEN TRUE
    ELSE IF s = <<>> THEN FALSE
         ELSE Head(s) = Head(pat) /\ starts_with(Tail(s), Tail(pat))

\* a matches that forgets the spec name
MatchesVersionOnly(self, nv, sn) == starts_with(nv, self.version)

\* ExpectedVersion::matches
matches(self, nv, sn) == starts_with(nv, self.version) /\ self.spec_name = sn

VersionChars == {"1", ".", "6"}
V_1_6 == <<"1", ".", "6">>
V_1_6_3 == <<"1", ".", "6", ".", "3">>
V_1_7_0 == <<"1", ".", "7", ".", "0">>
SpecNames == {"avail", "other"}

MatchInit ==
    /\ expected \in [version : SeqsUpTo(VersionChars, MaxVersionLen) \cup {V_1_6},
                      spec_name : SpecNames]
    /\ node_version \in SeqsUpTo(VersionChars, MaxNodeVersionLen) \cup {V_1_6_3, V_1_7_0}
    /\ spec_name \in SpecNames
    /\ matched = "called"
    /\ PoolIdle /\ WorkerIdle /\ CellsIdle /\ ConfIdle /\ QueueIdle /\ EventIdle

MatchCall ==
    /\ matched = "called"
    /\ matched' = IF matches(expected, node_version, spec_name) THEN "true" ELSE "false"
    /\ UNCHANGED <<expected, node_version, spec_name>>
    /\ UNCHANGED <<poolVars, workerVars, cellsVars, confVars, queueVars, eventVars>>

MatchNext == MatchCall

MatchSpec == MatchInit /\ [][MatchNext]_vars

\* node_version is expected.version followed by something
HasExpectedPrefix ==
    /\ Len(expected.version) <= Len(node_version)
    /\ \A i \in 1..Len(expected.version) : node_version[i] = expected.version[i]

\* what matches returned is true exactly when node_version begins with
\* expected.version and the spec names are equal; the three cases of the spec
MatchesIffPrefixAndName ==
    matched \in {"true", "false"} =>
        /\ (matched = "true") = (HasExpectedPrefix /\ spec_name = expected.spec_name)
        /\ (expected = [version |-> V_1_6, spec_name |-> "avail"] =>
              /\ ((node_version = V_1_6_3 /\ spec_name = "avail") => matched = "true")
              /\ ((node_version = V_1_7_0 /\ spec_name = "avail") => matched = "false")
              /\ ((node_version = V_1_6_3 /\ spec_name = "other") => matched = "false"))

\* C12: matches returns true if and only if node_version starts with
\* expected.version and spec_name equals expected.spec_name; expected
\* {"1.6", "avail"} accepts "1.6.3"/"avail" and rejects "1.7.0"/"avail" and
\* "1.6.3"/"other"; the call changes neither expected nor its arguments.
C12_MatchesPrefixAndName ==
    /\ []MatchesIffPrefixAndName
    /\ [][expected' = expected /\ node_version' = node_version /\ spec_name' = spec_name]_vars

\* C12's case: expected {"1.6", "avail"} was asked about "1.6.3"/"other" and refused
C12_Witness ==
    /\ expected = [version |-> V_1_6, spec_name |-> "avail"]
    /\ node_version = V_1_6_3 /\ spec_name = "other"
    /\ matched = "false"

----------------------------------------------------------------------------
(* QueueSpec: the command channel init creates, mpsc::channel(1000), with    *)
(* the facade handles as producers and the worker as the one consumer.       *)
(* Commands are numbered in the order they are handed to send.               *)

\* a channel made one slot too large
CommandCapacityPlusOne == 1000 + 1

\* mpsc::channel(1000)
CommandCapacity == 1000

Producers == 1..NumProducers

QueueInit ==
    /\ command_queue = <<>>
    /\ sending = [p \in Producers |-> 0]
    /\ waiting_since = [p \in Producers |-> 0]
    /\ issued = 0
    /\ dequeued = <<>>
    /\ PoolIdle /\ WorkerIdle /\ CellsIdle /\ ConfIdle /\ MatchIdle /\ EventIdle

QueueFrame == UNCHANGED <<poolVars, workerVars, cellsVars, confVars, matchVars, eventVars>>

\* a producer calls send(command).await: with a free slot the command is
\* queued and the call returns; with none the caller is suspended
QSend(p) ==
    /\ sending[p] = 0
    /\ issued' = issued + 1
    /\ IF Len(command_queue) < CommandCapacity
       THEN /\ command_queue' = Append(command_queue, issued + 1)
            /\ UNCHANGED <<sending, waiting_since>>
       ELSE /\ sending' = [sending EXCEPT ![p] = issued + 1]
            /\ waiting_since' = [waiting_since EXCEPT ![p] = Len(dequeued)]
            /\ UNCHANGED command_queue
    /\ UNCHANGED dequeued
    /\ QueueFrame

\* a suspended send finds a free slot, queues its command and returns
QResume(p) ==
    /\ sending[p] /= 0
    /\ Len(command_queue) < CommandCapacity
    /\ command_queue' = Append(command_queue, sending[p])
    /\ sending' = [sending EXCEPT ![p] = 0]
    /\ UNCHANGED <<waiting_since, issued, dequeued>>
    /\ QueueFrame

\* the worker receives the oldest command, which frees its slot
QRecv ==
    /\ command_queue /= <<>>
    /\ Len(dequeued) < MaxDequeues
    /\ dequeued' = Append(dequeued, Head(command_queue))
    /\ command_queue' = Tail(command_queue)
    /\ UNCHANGED <<sending, waiting_since, issued>>
    /\ QueueFrame

QueueNext ==
    \/ \E p \in Producers : QSend(p)
    \/ \E p \in Producers : QResume(p)
    \/ QRecv

QueueSpec == QueueInit /\ [][QueueNext]_vars

\* the commands a sequence holds
Range(q) == {q[i] : i \in 1..Len(q)}

\* the commands held by suspended sends
Suspended == {sending[p] : p \in {r \in Producers : sending[r] /= 0}}

\* the queue never holds more than 1000 commands, and every command handed to
\* send is in exactly one place: queued, received by the worker, or still
\* held by its suspended caller
QueueBoundedNoDrop ==
    /\ Len(command_queue) <= 1000
    /\ Range(command_queue) \cup Range(dequeued) \cup Suspended = 1..issued
    /\ Len(command_queue) + Len(dequeued) + Cardinality(Suspended) = issued

\* a send made while the queue holds 1000 commands suspends and queues
\* nothing; a send suspends only then; a suspended send completes only after
\* the worker has dequeued a command since it suspended
SuspendsWhenFull ==
    /\ ((issued' /= issued /\ Len(command_queue) = 1000) =>
          (command_queue' = command_queue /\ Suspended' /= Suspended))
    /\ \A p \in Producers :
          /\ ((sending[p] = 0 /\ sending'[p] /= 0) => Len(command_queue) = 1000)
          /\ ((sending[p] /= 0 /\ sending'[p] = 0) =>
                (Len(dequeued) > waiting_since[p] /\ sending[p] \in Range(command_queue')))

\* C13: with several producers and the worker as the one consumer the command
\* queue never holds more than 1000 commands, an enqueue attempted while it
\* holds 1000 suspends its caller and completes only after the worker has
\* dequeued a command, and no command is dropped.
C13_QueueBackpressure ==
    /\ []QueueBoundedNoDrop
    /\ [][SuspendsWhenFull]_vars

\* C13's case: a send that was suspended on the full queue has completed
\* after a dequeue, and the queue is full again
C13_Witness ==
    /\ Len(command_queue) = 1000
    /\ Len(dequeued) = 1
    /\ issued = 1001
    /\ command_queue[1000] = 1001
    /\ Suspended = {}

----------------------------------------------------------------------------
(* EventSpec: the event channel init creates, broadcast::channel(1000), with *)
(* the worker as the one publisher.  Events are numbered in the order the    *)
(* worker publishes them; the channel rounds the capacity it is asked for up *)
(* to a power of two and keeps that many of the newest events.               *)

\* broadcast::channel(1000)
EventCapacity == 1000

RECURSIVE PowerOfTwoFrom(_, _)
\* the first of p, 2p, 4p, ... that is at least n
PowerOfTwoFrom(p, n) == IF p >= n THEN p ELSE PowerOfTwoFrom(2 * p, n)

RECURSIVE PowerOfTwoUpTo(_, _)
\* the last of p, 2p, 4p, ... that is at most n
PowerOfTwoUpTo(p, n) == IF 2 * p > n THEN p ELSE PowerOfTwoUpTo(2 * p, n)

\* a rounding that goes down instead of up
PrevPowerOfTwo(n) == PowerOfTwoUpTo(1, n)

\* usize::next_power_of_two: the smallest power of two that is at least n
NextPowerOfTwo(n) == PowerOfTwoFrom(1, n)

\* a channel that keeps exactly the capacity asked for, with no rounding
UnroundedLen == EventCapacity

\* the number of events the channel keeps: 1024 for channel(1000)
BufferLen == NextPowerOfTwo(EventCapacity)

ListenerNames == {"l1", "l2"}

NotSubscribed == [sub |-> FALSE, sub_at |-> 0, next |-> 0, got |-> <<>>, missed |-> 0, calls |-> 0]

EventInit ==
    /\ published = 0
    /\ listeners = [l \in ListenerNames |-> NotSubscribed]
    /\ PoolIdle /\ WorkerIdle /\ CellsIdle /\ ConfIdle /\ MatchIdle /\ QueueIdle

EventFrame == UNCHANGED <<poolVars, workerVars, cellsVars, confVars, matchVars, queueVars>>

\* the oldest event the channel still holds
OldestKept == IF published > BufferLen THEN published - BufferLen + 1 ELSE 1

\* the worker publishes an event: send never waits for a listener
EPublish ==
    /\ published < MaxPublished
    /\ published' = published + 1
    /\ UNCHANGED listeners
    /\ EventFrame

\* subscribe(): the new listener starts after the events published so far
ESubscribe(l) ==
    /\ ~listeners[l].sub
    /\ (published <= MaxEarly \/ published >= EventCapacity)
    /\ listeners' = [listeners EXCEPT
                        ![l] = [NotSubscribed EXCEPT !.sub = TRUE, !.sub_at = published,
                                                     !.next = published + 1]]
    /\ UNCHANGED published
    /\ EventFrame

\* recv() with an event to read: the listener's next event, or, when the
\* channel has dropped it, the report of a gap and a jump to the oldest kept
ERecv(l) ==
    LET me == listeners[l]
    IN  /\ me.sub
        /\ me.calls < MaxRecvs
        /\ me.next <= published
        /\ listeners' = [listeners EXCEPT ![l] =
                IF me.next < OldestKept
                THEN [me EXCEPT !.missed = me.missed + (OldestKept - me.next),
                                !.next = OldestKept, !.calls = me.calls + 1]
                ELSE [me EXCEPT !.got = Append(me.got, me.next),
                                !.next = me.next + 1, !.calls = me.calls + 1]]
        /\ UNCHANGED published
        /\ EventFrame

EventNext ==
    \/ EPublish
    \/ \E l \in ListenerNames : ESubscribe(l)
    \/ \E l \in ListenerNames : ERecv(l)

EventSpec == EventInit /\ [][EventNext]_vars

\* a listener receives no event published before it subscribed, and one that
\* never saw a gap has received every event from its subscription on, in turn
ReceivesSinceSubscription ==
    \A l \in ListenerNames :
        LET me == listeners[l]
        IN  /\ \A i \in 1..Len(me.got) : me.got[i] > me.sub_at
            /\ (me.missed = 0 => \A i \in 1..Len(me.got) : me.got[i] = me.sub_at + i)

\* a recv made no more than 1000 events behind returns the listener's next event
RecvWithinBuffer ==
    \A l \in ListenerNames :
        (listeners'[l].calls /= listeners[l].calls
            /\ published - listeners[l].next + 1 <= 1000)
        => listeners'[l].got = Append(listeners[l].got, listeners[l].next)

\* C14: a listener that subscribed before an event was published, and is no
\* more than the 1000 buffered events behind when it reads, receives that
\* event; a listener never receives an event published before it subscribed.
C14_DeliveredSinceSubscription ==
    /\ []ReceivesSinceSubscription
    /\ [][RecvWithinBuffer]_vars

\* C14's case: one listener subscribed before event 1 and received it; the
\* other subscribed after it and received event 2 first
C14_Witness ==
    \E a, b \in ListenerNames :
        /\ listeners[a].sub /\ listeners[a].sub_at = 0 /\ listeners[a].got = <<1, 2>>
        /\ listeners[b].sub /\ listeners[b].sub_at = 1 /\ listeners[b].got = <<2>>

\* the events a listener has received are in the order they were published
InPublishOrder ==
    \A l \in ListenerNames :
        \A i, j \in 1..Len(listeners[l].got) :
            i < j => listeners[l].got[i] < listeners[l].got[j]

\* the worker can publish whatever the listeners have or have not read
PublishNeverBlocks ==
    published < MaxPublished => ENABLED EPublish

\* a recv made more than n events behind finds the oldest unread events gone:
\* it reports the gap and goes on from the oldest of the newest n events, and
\* touches no other listener
LosesBeyond(n) ==
    \A l \in ListenerNames :
        (listeners'[l].calls /= listeners[l].calls
            /\ published - listeners[l].next + 1 > n)
        => /\ listeners'[l].missed = listeners[l].missed + (published - n + 1 - listeners[l].next)
           /\ listeners'[l].next = published - n + 1
           /\ listeners'[l].got = listeners[l].got
           /\ \A m \in ListenerNames \ {l} : listeners'[m] = listeners[m]
           /\ published' = published

\* C15 as stated: the worker's publish never blocks, however many listeners
\* there are and however far behind; a listener receives its events in the
\* order they were published; a listener more than 1000 events behind loses
\* the oldest unread events and neither the worker nor another listener is
\* held up.
C15_LosesBeyond1000 ==
    /\ [](PublishNeverBlocks /\ InPublishOrder)
    /\ [][LosesBeyond(1000)]_vars

\* C15, amended: the worker's publish never blocks, however many listeners
\* there are and however far behind; a listener receives its events in the
\* order they were published; a listener more than 1024 events behind (the
\* 1000 asked for, rounded up to a power of two) loses the oldest unread
\* events and neither the worker nor another listener is held up.
C15_PublishNeverBlocks ==
    /\ [](PublishNeverBlocks /\ InPublishOrder)
    /\ [][LosesBeyond(1024)]_vars

\* C15's case: a listener that fell 1026 events behind lost events 1 and 2
\* and then received event 3, while the other listener had read event 1
C15_Witness ==
    \E a, b \in ListenerNames :
        /\ published = 1026
        /\ listeners[a].sub_at = 0 /\ listeners[a].missed = 2 /\ listeners[a].got = <<3>>
        /\ listeners[b].sub_at = 0 /\ listeners[b].got = <<1>> /\ listeners[b].missed = 0

====
